---- MODULE Spec2Model ----
(***************************************************************************)
(* Model of zyngine/zynthian_engine.py (class zynthian_engine): the engine *)
(* process supervisor (start / stop / proc_cmd and the output drain        *)
(* thread), the loading counter, the OSC transport (osc_init / osc_end)    *)
(* and the per-channel controller configuration store.                     *)
(*                                                                         *)
(* A caller's method is split into steps only where another thread can     *)
(* interleave (the blocking calls: Popen, terminate/sleep/kill, the pipe   *)
(* write, every queue.get).  The collaborator self.zyngui is taken to be   *)
(* present, and its start_loading()/stop_loading() not to fail.            *)
(***************************************************************************)
EXTENDS Integers, Sequences, FiniteSets, TLC

\* ------------------------------------------------------------------ bounds
MaxProcs == 2       \* processes one engine instance spawns in a run
MaxLines == 2       \* output lines the spawned processes emit in a run, in total
MaxLoading == 2     \* cap on the loading counter left behind by failed osc_init
MaxMsgs == 2        \* inbound OSC messages in a run
MaxCount == 2       \* largest value of the loading counter a call sequence starts from
MaxCalls == 4       \* direct calls of start_loading, and of stop_loading, in a sequence
MaxLoaded == 2      \* channels whose configuration is loaded in a run
MaxQueued == 2      \* lines waiting on the queue while proc_get_lines runs

\* --------------------------------------------------------------- constants
NoProc == 0         \* self.proc is None
NumChans == 16      \* range(16) in set_all_ctrls
limit == 2          \* proc_get_lines(self, tout=0.1, limit=2)
ToutDefault == 1    \* tout=0.1, in tenths of a second
ToutStart == 20     \* self.proc_get_lines(2) in start(), in tenths of a second

VARIABLES
  proc,        \* self.proc: NoProc or the id of the Popen object it refers to
  queue,       \* self.queue: [has |-> FALSE] is None, else the Queue's items
  loading,     \* self.loading
  osc_target,  \* self.osc_target: "none", or the protocol of the Address it holds
  osc_server,  \* self.osc_server: None, or a ServerThread, created or running
  live,        \* OS: ids of the spawned processes that have not exited
  nspawn,      \* OS: number of processes spawned so far (ids are 1..nspawn)
  emitted,     \* OS: emitted[p] = number of lines p has written to its stdout
  rd,          \* OS: rd[p] = number of lines already read from p's stdout pipe
  thr,         \* drain threads: thr[t] is the thread created by the start() that spawned t
  pc,          \* pc[c]: where caller c is inside the method it is running
  call,        \* call[c]: the method caller c runs (or ran last), its arguments, locals and result
  taken,       \* lines taken from self.queue since the last spawn, in order
  osc_log,     \* number of inbound OSC messages cb_osc_all has handled
  c0,          \* the loading counter before a sequence of start_loading/stop_loading calls
  begins,      \* calls of start_loading in the sequence
  ends,        \* calls of stop_loading in the sequence
  nested,      \* no prefix of the sequence had more ends than begins
  ctrl_config, \* self.ctrl_config: per channel, None or a reference structure
  heap,        \* the value (ctrl[2]) of every descriptor object that exists
  sent,        \* the messages the method run last has sent, in order
  ctl,         \* the controller-store method run last, its channel and whether it raised
  get_pc,      \* proc_get_lines seen alone: "idle", or "get" inside its loop
  get_n,       \* its local n (values above limit are kept as limit + 1)
  get_tout,    \* its local tout, in tenths of a second
  get_wait,    \* tenths of a second the pending queue.get has waited
  get_q        \* number of lines on self.queue

procVars == <<proc, queue, live, nspawn, emitted, rd, thr, taken>>
oscVars == <<osc_target, osc_server, osc_log>>
loadVars == <<c0, begins, ends, nested>>
ctrlVars == <<ctrl_config, heap, sent, ctl>>
getVars == <<get_pc, get_n, get_tout, get_wait, get_q>>
\* what the process supervisor's steps never touch
other == <<oscVars, loadVars, ctrlVars, getVars>>

vars == <<procVars, oscVars, loadVars, ctrlVars, getVars, loading, pc, call>>

Procs == 1..MaxProcs
Callers == {1, 2}
NoQueue == [has |-> FALSE, items |-> <<>>]
NewQueue == [has |-> TRUE, items |-> <<>>]
NoLine == <<0, 0>>
NoServer == [st |-> "none", proto |-> "none"]
Protos == {"UDP", "TCP"}
\* the k-th line process p emits
Line(p, k) == <<p, k>>

\* the result of a method: None, the string "", or a list of lines
RetNone == [kind |-> "None", lines |-> <<>>]
RetEmptyStr == [kind |-> "str", lines |-> <<>>]
RetLines(ls) == [kind |-> "list", lines |-> ls]

NoCall == [op |-> "none", sq |-> FALSE, h0 |-> NoProc, l0 |-> 0, raised |-> FALSE,
           out |-> RetNone, lines |-> <<>>, busy |-> 0, wrote |-> FALSE,
           spawned |-> FALSE, fail |-> "none", sent |-> <<>>, stale |-> <<>>,
           gone |-> FALSE]

\* ------------------------------------------------------- loading counter
\* start_loading: self.loading=self.loading+1; if self.loading<1: self.loading=1
start_loading(l) == IF l + 1 < 1 THEN 1 ELSE l + 1

\* a stop_loading without the floor of line 141
stop_loading_no_floor(l) == l - 1

\* stop_loading: self.loading=self.loading-1; if self.loading<0: self.loading=0
stop_loading(l) == IF l - 1 < 0 THEN 0 ELSE l - 1

\* ----------------------------------------------- controller store data
Chans == 0..(NumChans - 1)
\* the channels a run loads and changes: the first, two neighbours, the last
LoadChans == {0, 3, 4, NumChans - 1}
\* ctrl[1] of a descriptor: a string (an OSC path) or a number (a MIDI CC)
IdStr(path) == [str |-> TRUE, num |-> 0, path |-> path]
IdNum(n) == [str |-> FALSE, num |-> n, path |-> ""]

\* The template self.ctrl_list, which engine subclasses build: a list of
\* screens, each holding a list of descriptors [name, id, value, range].
\* One descriptor per kind of id: textual, positive, non-positive.
Template ==
  << << [name |-> "volume", id |-> IdStr("/volume"), val |-> 96],
        [name |-> "pan", id |-> IdNum(10), val |-> 64] >>,
     << [name |-> "unwired", id |-> IdNum(0), val |-> 0] >> >>

\* values a controller is set to
Vals == {127}

Screens == 1..Len(Template)
Slots == UNION {{<<s, i>> : i \in 1..Len(Template[s])} : s \in Screens}
\* the descriptor objects: those of the template (owner NumChans) and those a
\* deep copy makes for channel ch (owner ch)
TemplateOwner == NumChans
CellsOf(o) == {<<o, sl[1], sl[2]>> : sl \in Slots}
\* a screen list whose descriptors are the objects of owner o
Ref(o) == [s \in Screens |-> [i \in 1..Len(Template[s]) |-> <<o, s, i>>]]
\* self.ctrl_list refers to the template's objects
ctrl_list == Ref(TemplateOwner)
\* a slot of self.ctrl_config that holds None
NotLoaded == [loaded |-> FALSE, ref |-> <<>>]
\* what a controller-store method returned: nothing, None, or a screen list
NoRet == [kind |-> "none", ref |-> <<>>]
RetNoneValue == [kind |-> "None", ref |-> <<>>]
RetList(ref) == [kind |-> "list", ref |-> ref]

\* --------------------------------------------------------------- initial
\* the controller store of a fresh instance, which engine subclasses set up:
\* one empty slot per channel, and the template's descriptors with their
\* default values
InitStore ==
  /\ ctrl_config = [ch \in Chans |-> NotLoaded]
  /\ heap = [a \in CellsOf(TemplateOwner) |-> Template[a[2]][a[3]].val]
  /\ sent = <<>>
  /\ ctl = [op |-> "none", ch |-> 0, raised |-> FALSE, reset |-> FALSE, ret |-> NoRet]

\* the class attributes (lines 50-65) of a fresh instance
InitBase ==
  /\ osc_log = 0
  /\ begins = 0
  /\ ends = 0
  /\ nested = TRUE
  /\ InitStore
  /\ proc = NoProc
  /\ queue = NoQueue
  /\ live = {}
  /\ nspawn = 0
  /\ emitted = [p \in Procs |-> 0]
  /\ rd = [p \in Procs |-> 0]
  /\ thr = [t \in Procs |-> [st |-> "none", src |-> NoProc, held |-> NoLine]]
  /\ pc = [c \in Callers |-> "idle"]
  /\ call = [c \in Callers |-> NoCall]
  /\ taken = <<>>
  /\ get_pc = "idle"
  /\ get_n = 0
  /\ get_tout = ToutDefault
  /\ get_wait = 0
  /\ get_q = 0

Init ==
  /\ InitBase
  /\ loading = 0
  /\ c0 = 0
  /\ osc_target = "none"
  /\ osc_server = NoServer

\* a method entered by caller c: the handle and the counter it finds, and
\* for start() whether the process the handle refers to has exited already
Enter(c, op, sq) ==
  [NoCall EXCEPT !.op = op, !.sq = sq, !.h0 = proc, !.l0 = loading,
                 !.gone = (op = "start" /\ proc # NoProc /\ proc \notin live)]

\* ------------------------------------------------------------ start()
\* start(), lines 172-175: the test of self.proc and, when it is unset, start_loading()
start_begin(c, sq) ==
  /\ pc[c] = "idle"
  /\ IF proc # NoProc
       THEN /\ call' = [call EXCEPT ![c] = Enter(c, "start", sq)]
            /\ UNCHANGED <<pc, loading>>
       ELSE /\ call' = [call EXCEPT ![c] = [Enter(c, "start", sq) EXCEPT !.busy = 1]]
            /\ loading' = start_loading(loading)
            /\ pc' = [pc EXCEPT ![c] = "start_popen"]
  /\ UNCHANGED <<other, proc, queue, live, nspawn, emitted, rd,
                 thr, taken>>

\* a start() whose handler does not catch what Popen raised: the exception
\* leaves start() before stop_loading()
start_popen_fail_uncaught(c) ==
  /\ pc[c] = "start_popen"
  /\ call' = [call EXCEPT ![c].raised = TRUE, ![c].fail = "spawn"]
  /\ pc' = [pc EXCEPT ![c] = "idle"]
  /\ UNCHANGED <<other, procVars, loading>>

\* start(), lines 176-188, Popen raised: the handler logs, then stop_loading()
start_popen_fail(c) ==
  /\ pc[c] = "start_popen"
  /\ call' = [call EXCEPT ![c].busy = @ + 1, ![c].fail = "spawn"]
  /\ loading' = stop_loading(loading)
  /\ pc' = [pc EXCEPT ![c] = "idle"]
  /\ UNCHANGED <<other, proc, queue, live, nspawn, emitted, rd,
                 thr, taken>>

\* a start() that holds a lock and tests the handle again before Popen: with a
\* handle set by now it spawns nothing
start_popen_ok_locked(c) ==
  /\ pc[c] = "start_popen"
  /\ IF proc # NoProc
       THEN /\ call' = [call EXCEPT ![c].busy = @ + 1]
            /\ loading' = stop_loading(loading)
            /\ pc' = [pc EXCEPT ![c] = "idle"]
            /\ UNCHANGED <<proc, nspawn, live, taken, queue, thr>>
       ELSE /\ nspawn < MaxProcs
            /\ proc' = nspawn + 1
            /\ nspawn' = nspawn + 1
            /\ live' = live \cup {nspawn + 1}
            /\ taken' = <<>>
            /\ IF call[c].sq
                 THEN /\ queue' = NewQueue
                      /\ thr' = [thr EXCEPT ![nspawn + 1].st = "new"]
                      /\ call' = [call EXCEPT ![c].spawned = TRUE]
                      /\ pc' = [pc EXCEPT ![c] = "start_get"]
                      /\ UNCHANGED loading
                 ELSE /\ call' = [call EXCEPT ![c].spawned = TRUE, ![c].busy = @ + 1]
                      /\ loading' = stop_loading(loading)
                      /\ pc' = [pc EXCEPT ![c] = "idle"]
                      /\ UNCHANGED <<queue, thr>>
  /\ UNCHANGED <<other, emitted, rd>>

\* start(), lines 176-184 (and 188 without start_queue): Popen returned; with
\* start_queue the Queue and the drain thread are created and the thread started
start_popen_ok(c) ==
  /\ pc[c] = "start_popen"
  /\ nspawn < MaxProcs
  /\ LET p == nspawn + 1 IN
     /\ proc' = p
     /\ nspawn' = p
     /\ live' = live \cup {p}
     /\ taken' = <<>>
     /\ IF call[c].sq
          THEN /\ queue' = NewQueue
               /\ thr' = [thr EXCEPT ![p].st = "new"]
               /\ call' = [call EXCEPT ![c].spawned = TRUE]
               /\ pc' = [pc EXCEPT ![c] = "start_get"]
               /\ UNCHANGED loading
          ELSE /\ call' = [call EXCEPT ![c].spawned = TRUE, ![c].busy = @ + 1]
               /\ loading' = stop_loading(loading)
               /\ pc' = [pc EXCEPT ![c] = "idle"]
               /\ UNCHANGED <<queue, thr>>
  /\ UNCHANGED <<other, emitted, rd>>

\* ------------------------------------------------------ proc_get_lines()
\* One pass of the loop of proc_get_lines where queue.get returns a line.  The
\* timeout (tout, reset to 0.1 once n==limit) only bounds how long get waits.
proc_get_lines_get(c) ==
  /\ pc[c] \in {"start_get", "cmd_get"}
  /\ queue.has
  /\ queue.items # <<>>
  /\ queue' = [queue EXCEPT !.items = Tail(@)]
  /\ call' = [call EXCEPT ![c].lines = Append(@, Head(queue.items))]
  /\ taken' = Append(taken, Head(queue.items))
  /\ UNCHANGED <<other, proc, loading, live, nspawn, emitted, rd,
                 thr, pc>>

\* queue.get raised Empty: the loop breaks and the caller goes on to stop_loading()
\* (start() drops the lines, proc_cmd() returns them)
proc_get_lines_empty(c) ==
  /\ pc[c] \in {"start_get", "cmd_get"}
  /\ queue.has
  /\ queue.items = <<>>
  /\ call' = [call EXCEPT ![c].busy = @ + 1,
                          ![c].out = IF pc[c] = "cmd_get" THEN RetLines(call[c].lines)
                                     ELSE RetNone]
  /\ loading' = stop_loading(loading)
  /\ pc' = [pc EXCEPT ![c] = "idle"]
  /\ UNCHANGED <<other, proc, queue, live, nspawn, emitted, rd,
                 thr, taken>>

\* ------------------------------------------------------------- stop()
\* stop(), lines 191-195: the test of self.proc and, when it is set, start_loading()
stop_begin(c) ==
  /\ pc[c] = "idle"
  /\ IF proc = NoProc
       THEN /\ call' = [call EXCEPT ![c] = Enter(c, "stop", FALSE)]
            /\ UNCHANGED <<pc, loading>>
       ELSE /\ call' = [call EXCEPT ![c] = [Enter(c, "stop", FALSE) EXCEPT !.busy = 1]]
            /\ loading' = start_loading(loading)
            /\ pc' = [pc EXCEPT ![c] = "stop_terminate"]
  /\ UNCHANGED <<other, proc, queue, live, nspawn, emitted, rd,
                 thr, taken>>

\* stop(), line 199: self.proc.terminate() sent SIGTERM; sleep(wait) follows
stop_terminate_ok(c) ==
  /\ pc[c] = "stop_terminate"
  /\ proc # NoProc
  /\ call' = [call EXCEPT ![c].sent = Append(@, "TERM")]
  /\ pc' = [pc EXCEPT ![c] = "stop_kill"]
  /\ UNCHANGED <<other, proc, queue, loading, live, nspawn,
                 emitted, rd, thr, taken>>

\* a stop() that clears the handle inside the try block only
stop_terminate_fail_keeps_handle(c) ==
  /\ pc[c] = "stop_terminate"
  /\ call' = [call EXCEPT ![c].busy = @ + 1, ![c].fail = "terminate"]
  /\ loading' = stop_loading(loading)
  /\ pc' = [pc EXCEPT ![c] = "idle"]
  /\ UNCHANGED <<other, procVars>>

\* stop(), lines 199, 206-209: terminate() raised (or self.proc is None by now):
\* kill() is skipped, the handler logs, the handle is cleared, stop_loading()
stop_terminate_fail(c) ==
  /\ pc[c] = "stop_terminate"
  /\ call' = [call EXCEPT ![c].busy = @ + 1, ![c].fail = "terminate"]
  /\ proc' = NoProc
  /\ loading' = stop_loading(loading)
  /\ pc' = [pc EXCEPT ![c] = "idle"]
  /\ UNCHANGED <<other, queue, live, nspawn, emitted, rd, thr,
                 taken>>

\* stop(), lines 201-209 after the sleep: kill() (and killpg) either deliver
\* SIGKILL or raise, which the bare except swallows; the handle is cleared
stop_kill(c, ok) ==
  /\ pc[c] = "stop_kill"
  /\ IF ok /\ proc # NoProc
       THEN /\ live' = live \ {proc}
            /\ call' = [call EXCEPT ![c].busy = @ + 1, ![c].sent = Append(@, "KILL")]
       ELSE /\ call' = [call EXCEPT ![c].busy = @ + 1, ![c].fail = "kill"]
            /\ UNCHANGED live
  /\ proc' = NoProc
  /\ loading' = stop_loading(loading)
  /\ pc' = [pc EXCEPT ![c] = "idle"]
  /\ UNCHANGED <<other, queue, nspawn, emitted, rd, thr, taken>>

\* ----------------------------------------------------------- proc_cmd()
\* proc_cmd(), lines 212-213: without a handle the method falls off its end
\* (returns None); with one, start_loading()
proc_cmd_begin(c) ==
  /\ pc[c] = "idle"
  /\ IF proc = NoProc
       THEN /\ call' = [call EXCEPT ![c] = Enter(c, "proc_cmd", FALSE)]
            /\ UNCHANGED <<pc, loading>>
       ELSE /\ call' = [call EXCEPT ![c] = [Enter(c, "proc_cmd", FALSE) EXCEPT !.busy = 1]]
            /\ loading' = start_loading(loading)
            /\ pc' = [pc EXCEPT ![c] = "cmd_write"]
  /\ UNCHANGED <<other, proc, queue, live, nspawn, emitted, rd,
                 thr, taken>>

\* a proc_cmd() that empties the queue before it writes its command
proc_cmd_write_ok_flushes(c) ==
  /\ pc[c] = "cmd_write"
  /\ proc \in live
  /\ IF queue.has
       THEN /\ call' = [call EXCEPT ![c].wrote = TRUE, ![c].stale = queue.items]
            /\ queue' = NewQueue
            /\ pc' = [pc EXCEPT ![c] = "cmd_get"]
            /\ UNCHANGED loading
       ELSE /\ call' = [call EXCEPT ![c].wrote = TRUE, ![c].busy = @ + 1,
                                    ![c].out = RetEmptyStr, ![c].fail = "noqueue"]
            /\ loading' = stop_loading(loading)
            /\ pc' = [pc EXCEPT ![c] = "idle"]
            /\ UNCHANGED queue
  /\ UNCHANGED <<other, proc, live, nspawn, emitted, rd, thr, taken>>

\* proc_cmd(), lines 217-219: write and flush succeeded (the process holds the
\* read end of the pipe) and the queue is left as it is (stale: the lines on it
\* at that moment); proc_get_lines then raises at once when self.queue is None
proc_cmd_write_ok(c) ==
  /\ pc[c] = "cmd_write"
  /\ proc \in live
  /\ IF queue.has
       THEN /\ call' = [call EXCEPT ![c].wrote = TRUE, ![c].stale = queue.items]
            /\ pc' = [pc EXCEPT ![c] = "cmd_get"]
            /\ UNCHANGED loading
       ELSE /\ call' = [call EXCEPT ![c].wrote = TRUE, ![c].busy = @ + 1,
                                    ![c].out = RetEmptyStr, ![c].fail = "noqueue"]
            /\ loading' = stop_loading(loading)
            /\ pc' = [pc EXCEPT ![c] = "idle"]
  /\ UNCHANGED <<other, proc, queue, live, nspawn, emitted, rd,
                 thr, taken>>

\* a proc_cmd() that drops the handle when the write fails
proc_cmd_write_fail_clears_handle(c) ==
  /\ pc[c] = "cmd_write"
  /\ call' = [call EXCEPT ![c].busy = @ + 1, ![c].out = RetEmptyStr, ![c].fail = "write"]
  /\ proc' = NoProc
  /\ loading' = stop_loading(loading)
  /\ pc' = [pc EXCEPT ![c] = "idle"]
  /\ UNCHANGED <<other, queue, live, nspawn, emitted, rd, thr, taken>>

\* proc_cmd(), lines 217-218, 221-225: write or flush raised (broken pipe, or
\* self.proc is None by now): out="", stop_loading()
proc_cmd_write_fail(c) ==
  /\ pc[c] = "cmd_write"
  /\ call' = [call EXCEPT ![c].busy = @ + 1, ![c].out = RetEmptyStr, ![c].fail = "write"]
  /\ loading' = stop_loading(loading)
  /\ pc' = [pc EXCEPT ![c] = "idle"]
  /\ UNCHANGED <<other, proc, queue, live, nspawn, emitted, rd,
                 thr, taken>>

\* ------------------------------------------------------------- osc_init()
\* osc_init(): liblo.Address raises AddressError (caught, line 242) before
\* self.osc_target is assigned ("address"), or at line 238 after target and
\* server are assigned ("url"); liblo.ServerThread raises ServerError, which
\* line 242 does not catch ("server"); or every step succeeds ("ok")
osc_init(c, proto, outcome) ==
  /\ pc[c] = "idle"
  /\ outcome = "server" => loading < MaxLoading
  /\ call' = [call EXCEPT ![c] =
       [Enter(c, "osc_init", FALSE) EXCEPT
          !.busy = IF outcome = "server" THEN 1 ELSE 2,
          !.raised = (outcome = "server"),
          !.fail = IF outcome = "ok" THEN "none" ELSE outcome]]
  /\ osc_target' = IF outcome = "address" THEN osc_target ELSE proto
  /\ osc_server' = CASE outcome = "ok" -> [st |-> "running", proto |-> proto]
                     [] outcome = "url" -> [st |-> "created", proto |-> proto]
                     [] OTHER -> osc_server
  /\ loading' = IF outcome = "server" THEN start_loading(loading)
                ELSE stop_loading(start_loading(loading))
  /\ UNCHANGED <<getVars, procVars, loadVars, ctrlVars, osc_log, pc>>

\* osc_end(): with a server, start_loading(), a log line, stop_loading(); the
\* call of self.osc_server.stop() is commented out (line 250)
osc_end(c) ==
  /\ pc[c] = "idle"
  /\ IF osc_server.st # "none"
       THEN /\ call' = [call EXCEPT ![c] = [Enter(c, "osc_end", FALSE) EXCEPT !.busy = 2]]
            /\ loading' = stop_loading(start_loading(loading))
       ELSE /\ call' = [call EXCEPT ![c] = Enter(c, "osc_end", FALSE)]
            /\ UNCHANGED loading
  /\ UNCHANGED <<getVars, procVars, loadVars, ctrlVars, osc_target, osc_server, osc_log, pc>>

\* ------------------------------------------------- the external process
RECURSIVE SumTo(_, _)
SumTo(f, n) == IF n = 0 THEN 0 ELSE f[n] + SumTo(f, n - 1)
\* number of lines emitted so far, by all processes
Emitted == SumTo(emitted, MaxProcs)

\* a live process writes one more line to its stdout
proc_emit(p) ==
  /\ p \in live
  /\ Emitted < MaxLines
  /\ emitted' = [emitted EXCEPT ![p] = @ + 1]
  /\ UNCHANGED <<other, proc, queue, loading, live, nspawn, rd,
                 thr, pc, call, taken>>

\* a supervisor that notices the exit of its process and drops the handle
proc_exit_clears_handle(p) ==
  /\ p \in live
  /\ live' = live \ {p}
  /\ proc' = IF proc = p THEN NoProc ELSE proc
  /\ UNCHANGED <<other, queue, loading, nspawn, emitted, rd,
                 thr, pc, call, taken>>

\* a live process exits (by itself, or on a SIGTERM it was sent)
proc_exit(p) ==
  /\ p \in live
  /\ live' = live \ {p}
  /\ UNCHANGED <<other, proc, queue, loading, nspawn, emitted, rd,
                 thr, pc, call, taken>>

\* ------------------------------------------ proc_enqueue_output (thread)
\* line 153: the thread evaluates self.proc.stdout once; with self.proc None
\* that raises, and the bare except ends the thread
thr_bind(t) ==
  /\ thr[t].st = "new"
  /\ thr' = [thr EXCEPT ![t] = IF proc = NoProc
                                 THEN [@ EXCEPT !.st = "done"]
                                 ELSE [@ EXCEPT !.st = "read", !.src = proc]]
  /\ UNCHANGED <<other, proc, queue, loading, live, nspawn,
                 emitted, rd, pc, call, taken>>

\* line 153: the iterator yields the next line of the stream
thr_read(t) ==
  /\ thr[t].st = "read"
  /\ rd[thr[t].src] < emitted[thr[t].src]
  /\ thr' = [thr EXCEPT ![t].st = "put",
                        ![t].held = Line(thr[t].src, rd[thr[t].src] + 1)]
  /\ rd' = [rd EXCEPT ![thr[t].src] = @ + 1]
  /\ UNCHANGED <<other, proc, queue, loading, live, nspawn,
                 emitted, pc, call, taken>>

\* line 153: end of stream (the process is gone and the pipe is empty)
thr_eof(t) ==
  /\ thr[t].st = "read"
  /\ rd[thr[t].src] = emitted[thr[t].src]
  /\ thr[t].src \notin live
  /\ thr' = [thr EXCEPT ![t].st = "done"]
  /\ UNCHANGED <<other, proc, queue, loading, live, nspawn,
                 emitted, rd, pc, call, taken>>

\* line 154: self.queue.put(line), on whatever self.queue refers to now
thr_put(t) ==
  /\ thr[t].st = "put"
  /\ IF queue.has
       THEN /\ queue' = [queue EXCEPT !.items = Append(@, thr[t].held)]
            /\ thr' = [thr EXCEPT ![t].st = "read", ![t].held = NoLine]
       ELSE /\ thr' = [thr EXCEPT ![t].st = "done", ![t].held = NoLine]
            /\ UNCHANGED queue
  /\ UNCHANGED <<other, proc, loading, live, nspawn, emitted, rd,
                 pc, call, taken>>

\* cb_osc_all(): the receive loop of a running server hands an inbound
\* message to the catch-all handler, which logs it
cb_osc_all ==
  /\ osc_server.st = "running"
  /\ osc_log < MaxMsgs
  /\ osc_log' = osc_log + 1
  /\ UNCHANGED <<getVars, procVars, loadVars, ctrlVars, osc_target, osc_server, loading, pc, call>>

\* ------------------------------------- start_loading / stop_loading calls
\* a caller calls start_loading() itself
call_start_loading ==
  /\ begins < MaxCalls
  /\ loading' = start_loading(loading)
  /\ begins' = begins + 1
  /\ UNCHANGED <<getVars, procVars, oscVars, ctrlVars, c0, ends, nested, pc, call>>

\* a caller calls stop_loading() itself
call_stop_loading ==
  /\ ends < MaxCalls
  /\ loading' = stop_loading(loading)
  /\ ends' = ends + 1
  /\ nested' = (nested /\ ends + 1 <= begins)
  /\ UNCHANGED <<getVars, procVars, oscVars, ctrlVars, c0, begins, pc, call>>

\* ------------------------------------------------------ controller store
Loaded == {ch \in Chans : ctrl_config[ch].loaded}
\* the values of the descriptors a screen list refers to
ValsOf(h, ref) == [s \in Screens |-> [i \in 1..Len(Template[s]) |-> h[ref[s][i]]]]
ChanVals(h, cfg, ch) == ValsOf(h, cfg[ch].ref)
TemplateVals(h) == ValsOf(h, ctrl_list)

\* a copy that shares the descriptor objects of its source
alias_copy(h, ref, ch) == [ref |-> ref, heap |-> h]

\* copy.deepcopy(self.ctrl_list), line 365: fresh objects for screen lists and
\* descriptors, holding the values of the source's
deepcopy(h, ref, ch) ==
  [ref |-> Ref(ch),
   heap |-> [a \in DOMAIN h \cup CellsOf(ch) |->
               IF a[1] = ch THEN h[ref[a[2]][a[3]]] ELSE h[a]]]

\* a load that copies the template only into an empty slot
load_ctrl_config_lazy(ch) ==
  /\ ch \in Loaded \/ Cardinality(Loaded) < MaxLoaded
  /\ LET r == deepcopy(heap, ctrl_list, ch) IN
     IF ch \in Loaded
       THEN UNCHANGED <<ctrl_config, heap>>
       ELSE /\ ctrl_config' = [ctrl_config EXCEPT ![ch] = [loaded |-> TRUE, ref |-> r.ref]]
            /\ heap' = r.heap
  /\ sent' = <<>>
  /\ ctl' = [op |-> "load", ch |-> ch, raised |-> FALSE, ret |-> NoRet,
             reset |-> (ch \in Loaded /\ ChanVals(heap, ctrl_config, ch) # TemplateVals(heap))]
  /\ UNCHANGED <<getVars, procVars, oscVars, loadVars, loading, pc, call>>

\* load_ctrl_config(chan), lines 362-365: the slot is assigned a deep copy of
\* the template, whatever it held
load_ctrl_config(ch) ==
  /\ ch \in Loaded \/ Cardinality(Loaded) < MaxLoaded
  /\ LET r == deepcopy(heap, ctrl_list, ch) IN
     /\ ctrl_config' = [ctrl_config EXCEPT ![ch] = [loaded |-> TRUE, ref |-> r.ref]]
     /\ heap' = r.heap
  /\ sent' = <<>>
  /\ ctl' = [op |-> "load", ch |-> ch, raised |-> FALSE, ret |-> NoRet,
             reset |-> (ch \in Loaded /\ ChanVals(heap, ctrl_config, ch) # TemplateVals(heap))]
  /\ UNCHANGED <<getVars, procVars, oscVars, loadVars, loading, pc, call>>

\* a value change of one descriptor of channel ch's configuration, as engine
\* subclasses make it: ctrl[2]=val on the object the configuration refers to
set_value(ch, s, i, v) ==
  /\ ch \in Loaded
  /\ heap' = [heap EXCEPT ![ctrl_config[ch].ref[s][i]] = v]
  /\ sent' = <<>>
  /\ ctl' = [op |-> "set", ch |-> ch, raised |-> FALSE, reset |-> FALSE, ret |-> NoRet]
  /\ UNCHANGED <<getVars, procVars, oscVars, loadVars, ctrl_config, loading, pc, call>>

\* get_ctrl_list(), lines 350-354, with self.midi_chan = mc: the content of the
\* channel's slot, whatever it is; the template only when the subscript raises
\* (mc is no index of the store), which the bare except catches
get_ctrl_list(mc) ==
  /\ ctl' = [op |-> "get", ch |-> mc, raised |-> FALSE, reset |-> FALSE,
             ret |-> IF mc \in Chans
                       THEN (IF ctrl_config[mc].loaded THEN RetList(ctrl_config[mc].ref)
                             ELSE RetNoneValue)
                       ELSE RetList(ctrl_list)]
  /\ sent' = <<>>
  /\ UNCHANGED <<getVars, procVars, oscVars, loadVars, ctrl_config, heap, loading, pc, call>>

\* get_ctrl_osc_val / get_ctrl_midi_val, which engine subclasses define: the
\* value in the representation of the transport
get_ctrl_osc_val(v) == [rep |-> "osc", of |-> v]
get_ctrl_midi_val(v) == [rep |-> "midi", of |-> v]

\* the messages of set_all_ctrls: liblo.send(target, path, value), line 378,
\* and zynmidi.set_midi_control(ch, id, value), line 380
OscMsg(path, v) ==
  [kind |-> "osc", ch |-> 0, id |-> 0, path |-> path, val |-> get_ctrl_osc_val(v)]
CcMsg(ch, n, v) ==
  [kind |-> "cc", ch |-> ch, id |-> n, path |-> "", val |-> get_ctrl_midi_val(v)]

\* the descriptors of a screen list, in the order of the loops of lines 375-376
RECURSIVE Flatten(_, _)
Flatten(ref, s) ==
  IF s > Len(ref) THEN <<>> ELSE ref[s] \o Flatten(ref, s + 1)

\* the descriptors set_all_ctrls visits: for ch in range(16), the channels whose
\* slot is truthy (line 374), each channel's descriptors in order
RECURSIVE Visit(_, _)
Visit(cfg, ch) ==
  IF ch >= NumChans THEN <<>>
  ELSE (IF cfg[ch].loaded THEN [k \in 1..Len(Flatten(cfg[ch].ref, 1)) |->
                                   [ch |-> ch, cell |-> Flatten(cfg[ch].ref, 1)[k]]]
        ELSE <<>>) \o Visit(cfg, ch + 1)

\* Lines 377-380 over the visited descriptors from the k-th on: acc.msgs are
\* the messages sent so far, acc.osc the liblo.send calls made so far.
\* liblo.send raises when the target is unset, and when the transport fails
\* (failAt is the number of the call that fails, 0 for none); set_all_ctrls
\* catches nothing, so the loops end there.
RECURSIVE SendFrom(_, _, _, _, _, _)
SendFrom(items, k, h, target, failAt, acc) ==
  IF k > Len(items) THEN [msgs |-> acc.msgs, raised |-> FALSE]
  ELSE LET it == items[k]
           d == Template[it.cell[2]][it.cell[3]]
       IN IF d.id.str
            THEN IF target = "none" \/ acc.osc + 1 = failAt
                   THEN [msgs |-> acc.msgs, raised |-> TRUE]
                   ELSE SendFrom(items, k + 1, h, target, failAt,
                                 [msgs |-> Append(acc.msgs, OscMsg(d.id.path, h[it.cell])),
                                  osc |-> acc.osc + 1])
            ELSE IF d.id.num > 0
                   THEN SendFrom(items, k + 1, h, target, failAt,
                                 [msgs |-> Append(acc.msgs, CcMsg(it.ch, d.id.num, h[it.cell])),
                                  osc |-> acc.osc])
                   ELSE SendFrom(items, k + 1, h, target, failAt, acc)

\* set_all_ctrls(), lines 371-380
set_all_ctrls(failAt) ==
  /\ LET r == SendFrom(Visit(ctrl_config, 0), 1, heap, osc_target, failAt,
                       [msgs |-> <<>>, osc |-> 0])
     IN /\ sent' = r.msgs
        /\ ctl' = [op |-> "broadcast", ch |-> 0, raised |-> r.raised, reset |-> FALSE,
                   ret |-> NoRet]
  /\ UNCHANGED <<getVars, procVars, oscVars, loadVars, ctrl_config, heap, loading, pc, call>>

\* ------------------------------------------- proc_get_lines, seen alone
\* proc_get_lines(tout), lines 159-161, called by start() with tout=2 and by
\* proc_cmd() with its default: n=0, and the first queue.get(True,tout) begins
get_begin(t) ==
  /\ get_pc = "idle"
  /\ get_pc' = "get"
  /\ get_n' = 0
  /\ get_tout' = t
  /\ get_wait' = 0
  /\ UNCHANGED <<procVars, oscVars, loadVars, ctrlVars, get_q, loading, pc, call>>

\* lines 164-166: queue.get returns a line; n=n+1; if n==limit: tout=0.1; the
\* loop goes on with the next queue.get
get_line ==
  /\ get_pc = "get"
  /\ get_q > 0
  /\ get_q' = get_q - 1
  /\ get_n' = IF get_n < limit + 1 THEN get_n + 1 ELSE get_n
  /\ get_tout' = IF get_n + 1 = limit THEN ToutDefault ELSE get_tout
  /\ get_wait' = 0
  /\ UNCHANGED <<procVars, oscVars, loadVars, ctrlVars, get_pc, loading, pc, call>>

\* a tenth of a second passes while queue.get waits on the empty queue
get_tick ==
  /\ get_pc = "get"
  /\ get_q = 0
  /\ get_wait < get_tout
  /\ get_wait' = get_wait + 1
  /\ UNCHANGED <<procVars, oscVars, loadVars, ctrlVars, get_pc, get_n, get_tout, get_q,
                 loading, pc, call>>

\* lines 167-169: the queue stayed empty for tout, queue.get raises Empty, the
\* loop breaks and the lines are returned
get_empty ==
  /\ get_pc = "get"
  /\ get_q = 0
  /\ get_wait = get_tout
  /\ get_pc' = "idle"
  /\ UNCHANGED <<procVars, oscVars, loadVars, ctrlVars, get_n, get_tout, get_wait, get_q,
                 loading, pc, call>>

\* lines 153-154: the drain thread puts a line the process emitted on the queue
get_put ==
  /\ get_q < MaxQueued
  /\ get_q' = get_q + 1
  /\ UNCHANGED <<procVars, oscVars, loadVars, ctrlVars, get_pc, get_n, get_tout, get_wait,
                 loading, pc, call>>

\* ------------------------------------------------------- specifications
CallerStep(c) ==
  \/ \E sq \in BOOLEAN : start_begin(c, sq)
  \/ start_popen_fail(c)
  \/ start_popen_ok(c)
  \/ proc_get_lines_get(c)
  \/ proc_get_lines_empty(c)
  \/ stop_begin(c)
  \/ stop_terminate_ok(c)
  \/ stop_terminate_fail(c)
  \/ \E ok \in BOOLEAN : stop_kill(c, ok)
  \/ proc_cmd_begin(c)
  \/ proc_cmd_write_ok(c)
  \/ proc_cmd_write_fail(c)

OscStep(c) ==
  \/ \E p \in Protos : \E o \in {"ok", "address", "server", "url"} : osc_init(c, p, o)
  \/ osc_end(c)

EnvStep ==
  \/ \E p \in Procs : proc_emit(p)
  \/ \E p \in Procs : proc_exit(p)
  \/ \E t \in Procs : thr_bind(t)
  \/ \E t \in Procs : thr_read(t)
  \/ \E t \in Procs : thr_eof(t)
  \/ \E t \in Procs : thr_put(t)

\* one engine instance driven by a single caller
Next == CallerStep(1) \/ EnvStep

Spec == Init /\ [][Next]_vars

\* start(), stop() and proc_cmd() of a process started without a queue
RaceStep(c) ==
  \/ start_begin(c, FALSE)
  \/ start_popen_fail(c)
  \/ start_popen_ok(c)
  \/ stop_begin(c)
  \/ stop_terminate_ok(c)
  \/ stop_terminate_fail(c)
  \/ \E ok \in BOOLEAN : stop_kill(c, ok)
  \/ proc_cmd_begin(c)
  \/ proc_cmd_write_ok(c)
  \/ proc_cmd_write_fail(c)

\* one engine instance driven by two callers (threads) that do not serialise
\* their calls: the methods take no lock, so the steps interleave freely
NextRace == RaceStep(1) \/ RaceStep(2) \/ \E p \in Procs : proc_exit(p)

SpecRace == Init /\ [][NextRace]_vars

\* the OSC transport of one engine instance
NextOsc == OscStep(1) \/ cb_osc_all

SpecOsc == Init /\ [][NextOsc]_vars

\* a sequence of start_loading/stop_loading calls from a counter value c0
InitLoad ==
  /\ InitBase
  /\ loading \in 0..MaxCount
  /\ c0 = loading
  /\ osc_target = "none"
  /\ osc_server = NoServer

NextLoad == call_start_loading \/ call_stop_loading

SpecLoad == InitLoad /\ [][NextLoad]_vars

\* the controller configuration store; the OSC transport is either never
\* opened or open
InitCtrl ==
  /\ InitBase
  /\ loading = 0
  /\ c0 = 0
  /\ \/ osc_target = "none" /\ osc_server = NoServer
     \/ osc_target = "UDP" /\ osc_server = [st |-> "running", proto |-> "UDP"]

NextCtrl ==
  \/ \E ch \in LoadChans : load_ctrl_config(ch)
  \/ \E ch \in LoadChans : \E sl \in Slots : \E v \in Vals : set_value(ch, sl[1], sl[2], v)
  \/ \E failAt \in 0..MaxLoaded : set_all_ctrls(failAt)
  \/ \E mc \in LoadChans \cup {NumChans} : get_ctrl_list(mc)

SpecCtrl == InitCtrl /\ [][NextCtrl]_vars

\* proc_get_lines and a process that emits lines whenever it likes.  The caller
\* runs on (its thread is scheduled) and time passes; nothing obliges the
\* process to emit or to stop emitting.
NextGet ==
  \/ \E t \in {ToutDefault, ToutStart} : get_begin(t)
  \/ get_line
  \/ get_tick
  \/ get_empty
  \/ get_put

SpecGet ==
  /\ Init
  /\ [][NextGet]_vars
  /\ WF_vars(get_line)
  /\ WF_vars(get_tick)
  /\ WF_vars(get_empty)

\* ================================================================ claims
\* a step in which a method of caller c returns (or raises) to the caller
Returns(c) == pc'[c] = "idle" /\ call'[c] # call[c]
\* a step that enters method op of caller c
Enters(c, op) == pc[c] = "idle" /\ call'[c] # call[c] /\ call'[c].op = op

\* C1: with a single caller at most one spawned process is live at any time,
\* and start() called while a handle exists spawns nothing and leaves the
\* handle, the queue, the drain threads and the loading counter unchanged.
C1_AtMostOneLiveProcess ==
  [][/\ Cardinality(live') <= 1
     /\ (Enters(1, "start") /\ proc # NoProc) =>
          UNCHANGED <<getVars, procVars, loading, pc>>]_vars

\* C2: when start, stop, proc_cmd, osc_init or osc_end has returned or failed,
\* the loading counter equals its value at entry.
C2_LoadingRestored ==
  \A c \in Callers :
    (pc[c] = "idle" /\ call[c].op # "none") => loading = call[c].l0

\* C3: the counter is never negative, and after a well nested sequence of
\* start_loading/stop_loading calls it is c0 + begins - ends.
C3_LoadingCounter ==
  /\ loading >= 0
  /\ nested => loading = c0 + begins - ends

\* C3 witness: three begins and two ends from 0 leave the counter at 1
C3_Witness ==
  c0 = 0 /\ begins = 3 /\ ends = 2 /\ nested /\ loading = 1

\* C4: when Popen fails in start(), the handle is unset when start() returns,
\* nothing reaches the caller, and a start() entered with the handle unset
\* goes on to spawn.
C4_SpawnFailure ==
  [][\A c \in Callers :
       /\ (Returns(c) /\ call'[c].op = "start" /\ call'[c].fail = "spawn") =>
            (proc' = NoProc /\ ~call'[c].raised /\ live' = live /\ loading' = call'[c].l0)
       /\ (Enters(c, "start") /\ proc = NoProc) => pc'[c] = "start_popen"]_vars

\* C4 witness: start() has returned after a failed spawn
C4_Witness ==
  pc[1] = "idle" /\ call[1].op = "start" /\ call[1].fail = "spawn" /\ proc = NoProc

\* C5: stop() entered with a handle returns with the handle unset, whether or
\* not terminate or kill raised; entered without a handle it changes nothing
\* and signals nothing; no error reaches the caller.
C5_StopClearsHandle ==
  [][\A c \in Callers :
       /\ (Returns(c) /\ call'[c].op = "stop" /\ call'[c].h0 # NoProc) =>
            (proc' = NoProc /\ ~call'[c].raised)
       /\ (Enters(c, "stop") /\ proc = NoProc) =>
            (UNCHANGED <<getVars, procVars, loading, pc>> /\ call'[c].busy = 0 /\ ~call'[c].raised)]_vars

\* C5 witness: stop() has returned after terminate() raised
C5_Witness ==
  pc[1] = "idle" /\ call[1].op = "stop" /\ call[1].fail = "terminate" /\ proc = NoProc

\* C6: proc_cmd never raises; without a handle it writes nothing, changes
\* nothing and returns None; when the write fails or there is no queue it
\* returns an empty result and leaves the handle as it was.
C6_ProcCmdNeverRaises ==
  [][\A c \in Callers :
       /\ (Returns(c) /\ call'[c].op = "proc_cmd") => ~call'[c].raised
       /\ (Enters(c, "proc_cmd") /\ proc = NoProc) =>
            (UNCHANGED <<getVars, procVars, loading, pc>> /\ call'[c].out = RetNone /\ ~call'[c].wrote)
       /\ (Returns(c) /\ call'[c].op = "proc_cmd" /\ call'[c].fail \in {"write", "noqueue"}) =>
            (call'[c].out = RetEmptyStr /\ proc' = proc /\ proc' = call'[c].h0)]_vars

\* C6 witness: proc_cmd has returned "" from a process started without a queue
C6_Witness ==
  /\ pc[1] = "idle" /\ call[1].op = "proc_cmd" /\ call[1].fail = "noqueue"
  /\ call[1].out = RetEmptyStr /\ proc # NoProc

\* C7: within one process lifetime the lines taken from the queue are a
\* prefix of the lines that process emitted, in emission order.
C7_TakenIsPrefixOfEmitted ==
  proc # NoProc =>
    /\ Len(taken) <= emitted[proc]
    /\ \A i \in 1..Len(taken) : taken[i] = Line(proc, i)

C9_CopyIsolation ==
  [][/\ \A a \in Loaded', b \in Loaded' :
          a # b => \A sl \in Slots :
            /\ ctrl_config'[a].ref[sl[1]][sl[2]] # ctrl_config'[b].ref[sl[1]][sl[2]]
            /\ ctrl_config'[a].ref[sl[1]][sl[2]] # ctrl_list[sl[1]][sl[2]]
     /\ (ctl'.op = "set" /\ heap' # heap) =>
          /\ TemplateVals(heap') = TemplateVals(heap)
          /\ \A b \in Loaded \ {ctl'.ch} :
               ChanVals(heap', ctrl_config', b) = ChanVals(heap, ctrl_config, b)]_vars

\* C9 witness: two loaded channels, one of them with a changed value
C9_Witness ==
  /\ ctl.op = "set"
  /\ 3 \in Loaded /\ 4 \in Loaded
  /\ ChanVals(heap, ctrl_config, 3) # TemplateVals(heap)
  /\ ChanVals(heap, ctrl_config, 4) = TemplateVals(heap)

\* the number of messages of the last method that satisfy Test
CountSent(Test(_)) == Cardinality({k \in 1..Len(sent) : Test(sent[k])})
WiredSlots == {sl \in Slots : Template[sl[1]][sl[2]].id.str \/ Template[sl[1]][sl[2]].id.num > 0}

\* C10: set_all_ctrls sends, for every loaded channel, exactly one message per
\* descriptor with a textual id (OSC) or a positive id (MIDI CC), none for a
\* non-positive id, and none for a channel that is not loaded.
C10_OneMessagePerDescriptor ==
  ctl.op = "broadcast" =>
    /\ Len(sent) = Cardinality(Loaded) * Cardinality(WiredSlots)
    /\ \A ch \in Chans : \A sl \in Slots :
         LET d == Template[sl[1]][sl[2]] IN
         IF d.id.str
           THEN ch \in Loaded =>
                  LET IsIt(m) == m = OscMsg(d.id.path, heap[ctrl_config[ch].ref[sl[1]][sl[2]]])
                  IN CountSent(IsIt) >= 1
           ELSE IF ch \in Loaded /\ d.id.num > 0
                  THEN LET IsIt(m) == m = CcMsg(ch, d.id.num, heap[ctrl_config[ch].ref[sl[1]][sl[2]]])
                       IN CountSent(IsIt) = 1
                  ELSE LET IsIt(m) == m.kind = "cc" /\ m.ch = ch /\ m.id = d.id.num
                       IN CountSent(IsIt) = 0

\* C11: when the OSC target is unset or an OSC send fails, set_all_ctrls does
\* not raise and still sends the MIDI CC of every descriptor with a positive
\* id of every loaded channel.
C11_BroadcastTolerant ==
  ctl.op = "broadcast" =>
    /\ ~ctl.raised
    /\ \A ch \in Loaded : \A sl \in Slots :
         LET d == Template[sl[1]][sl[2]]
             IsIt(m) == m = CcMsg(ch, d.id.num, heap[ctrl_config[ch].ref[sl[1]][sl[2]]])
         IN (~d.id.str /\ d.id.num > 0) => CountSent(IsIt) = 1

\* C12: when osc_init has failed, at whatever step, both self.osc_target and
\* self.osc_server are unset and no error has reached the caller.
C12_FailedOpenLeavesBothUnset ==
  \A c \in Callers :
    (pc[c] = "idle" /\ call[c].op = "osc_init" /\ call[c].fail # "none") =>
      (osc_target = "none" /\ osc_server = NoServer /\ ~call[c].raised)

\* C13: get_ctrl_list returns, for a channel in 0..15, the channel's
\* configuration when it is loaded and the template when it is not; never None.
C13_ActiveListOrTemplate ==
  (ctl.op = "get" /\ ctl.ch \in Chans) =>
    ctl.ret = IF ctl.ch \in Loaded THEN RetList(ctrl_config[ctl.ch].ref)
              ELSE RetList(ctrl_list)

\* C14: once osc_end has returned on an instance that had a server, the server
\* is not running and cb_osc_all handles no further message; without a server
\* osc_end changes nothing; no error reaches the caller.
C14_CloseStopsServer ==
  [][\A c \in Callers :
       /\ (Enters(c, "osc_end") /\ osc_server.st # "none") =>
            (osc_server'.st # "running" /\ ~call'[c].raised)
       /\ (Enters(c, "osc_end") /\ osc_server.st = "none") =>
            (UNCHANGED <<oscVars, loading, pc>> /\ ~call'[c].raised)
       /\ (pc[c] = "idle" /\ call[c].op = "osc_end" /\ call[c].busy > 0) =>
            osc_log' = osc_log]_vars

\* C15: proc_get_lines always returns: whatever the process emits, a caller
\* inside the loop eventually leaves it.
C15_GetLinesTerminates ==
  (get_pc = "get") ~> (get_pc = "idle")

\* the drain threads created so far; the newest belongs to the process the
\* current queue was created for
Started == {t \in Procs : thr[t].st # "none"}
QueueOwner == CHOOSE t \in Started : \A u \in Started : u <= t

\* C16: every line on the current queue was put there by the drain thread of
\* the process the queue was created for, and is a line of that process; a
\* drain thread of an earlier process puts nothing on it.
C16_SingleProducer ==
  \A i \in 1..Len(queue.items) : queue.items[i][1] = QueueOwner

\* C17: the methods take no lock.  A caller of start() that found the handle
\* unset spawns a process whatever the handle has become since, and the handle
\* then refers to the process spawned last while the others stay live; a
\* caller of stop() or proc_cmd() whose handle another caller's stop() has
\* cleared since its test fails at its use of the handle, without raising.
C17_NoLocking ==
  [][\A c \in Callers :
       /\ (pc[c] = "start_popen" /\ pc'[c] # "start_popen" /\ call'[c].fail # "spawn") =>
            /\ call'[c].spawned
            /\ nspawn' = nspawn + 1
            /\ proc' = nspawn'
            /\ live' = live \cup {nspawn'}
       /\ (pc[c] \in {"stop_terminate", "cmd_write"} /\ pc'[c] # pc[c] /\ proc = NoProc) =>
            (call'[c].fail \in {"terminate", "write"} /\ ~call'[c].raised /\ live' = live)]_vars

\* C17 witness: two start() calls that overlapped (the second was entered
\* while the first was busy) have both returned, two processes are live and
\* the handle refers to the one spawned last
C17_Witness ==
  /\ pc[1] = "idle" /\ pc[2] = "idle"
  /\ call[1].op = "start" /\ call[2].op = "start"
  /\ call[1].spawned /\ call[2].spawned
  /\ call[1].l0 = 0 /\ call[2].l0 = 1
  /\ live = {1, 2} /\ proc = nspawn

\* C18: stop() sends the termination request first and issues the kill only
\* if the process is still alive after the sleep: a process that has exited
\* meanwhile is sent no kill, and no kill goes out before the request.
C18_KillOnlyIfAlive ==
  [][\A c \in Callers :
       (pc[c] \in {"stop_terminate", "stop_kill"} /\ call'[c].sent # call[c].sent) =>
         \/ call[c].sent = <<>> /\ call'[c].sent = <<"TERM">>
         \/ call[c].sent = <<"TERM">> /\ call'[c].sent = <<"TERM", "KILL">> /\ proc \in live]_vars

IsPrefix(a, b) == Len(a) <= Len(b) /\ SubSeq(b, 1, Len(a)) = a

\* C19: proc_cmd leaves the lines that are on the queue when it writes its
\* command where they are, and returns them at the head of its result.
C19_StaleLinesReturned ==
  \A c \in Callers :
    (call[c].op = "proc_cmd" /\ call[c].wrote /\ call[c].fail = "none") =>
      IF pc[c] = "cmd_get"
        THEN IsPrefix(call[c].stale, call[c].lines \o queue.items)
        ELSE call[c].out.kind = "list" /\ IsPrefix(call[c].stale, call[c].out.lines)

\* C19 witness: proc_cmd has returned a result that begins with a line that
\* was on the queue before the command was written
C19_Witness ==
  /\ pc[1] = "idle" /\ call[1].op = "proc_cmd" /\ call[1].wrote
  /\ call[1].stale # <<>>
  /\ call[1].out.kind = "list" /\ Len(call[1].out.lines) >= 1
  /\ call[1].out.lines[1] = call[1].stale[1]

\* C20: only stop() clears the handle: it stays set when the process exits by
\* itself and when a proc_cmd write fails, a start() that finds it set spawns
\* nothing even if the process is gone, and nothing is spawned while it is set.
C20_OnlyStopClearsHandle ==
  [][/\ (proc # NoProc /\ proc' = NoProc) =>
          \E c \in Callers : call[c].op = "stop" /\ pc[c] # "idle" /\ pc'[c] = "idle"
     /\ \A c \in Callers : (Enters(c, "start") /\ proc # NoProc) =>
          (pc'[c] = "idle" /\ proc' = proc /\ ~call'[c].spawned)
     /\ nspawn' # nspawn => proc = NoProc]_vars

\* C20 witness: start() has returned without spawning because the handle still
\* refers to a process that has exited
C20_Witness ==
  /\ pc[1] = "idle" /\ call[1].op = "start" /\ ~call[1].spawned /\ call[1].busy = 0
  /\ proc # NoProc /\ proc \notin live /\ call[1].h0 = proc /\ call[1].gone

====
